---- MODULE Spec2Model ----
(***************************************************************************)
(* A model of src/streamlit_app.py: one run of the Streamlit script, from  *)
(* the sidebar widgets through geocoding, the "Calculate Emissions"        *)
(* button, get_route_distance (request, JSON decoding, extraction, the     *)
(* except handler with the haversine fallback), calculate_emissions,       *)
(* show_comparison and show_reduction_tips.                                *)
(*                                                                         *)
(* Number representation.  The program computes in binary64 floats; the    *)
(* model computes in decimal fixed point on integers:                      *)
(*   - angles and trigonometric values: units of 1/Scale (radians, or      *)
(*     pure numbers), every operation rounded to the nearest unit, ties    *)
(*     away from zero (sign-symmetric, like IEEE round-to-nearest);        *)
(*   - coordinates: hundredths of a degree;                                *)
(*   - distances: hectometres (0.1 km);                                    *)
(*   - emissions: micro-tonnes (1e-6 t), in which every product of         *)
(*     calculate_emissions is exact;                                       *)
(*   - percentages: thousandths of a percent.                              *)
(* The folium map (lines 94-113) and the community/city/state metrics      *)
(* (lines 130-148, 212-224, 248-252) only render widgets and feed nothing  *)
(* back into the calculation; they are not modelled.                       *)
(***************************************************************************)
EXTENDS Integers, Sequences, FiniteSets, TLC

VARIABLES
    pc,             \* position of the script run
    country,        \* st.selectbox "Select Country"
    work_days,      \* st.number_input "Work Days/Year"
    electricity,    \* st.number_input "Monthly Electricity (kWh)"
    waste,          \* st.number_input "Weekly Waste (kg)"
    meals,          \* st.number_input "Daily Meals"
    home_coords,    \* get_coordinates(home_address)[0]
    work_coords,    \* get_coordinates(work_address)[0]
    pressed,        \* st.sidebar.button("Calculate Emissions")
    requests,       \* number of requests.get calls made by get_route_distance
    response,       \* what requests.get produced
    failure,        \* the exception raised inside the try block, "none" if none
    fallback_calls, \* number of calculate_straight_distance calls of the handler
    distance,       \* value returned by get_route_distance (hm)
    results,        \* dict returned by calculate_emissions (micro-tonnes)
    comparison,     \* what show_comparison computed and wrote
    focus,          \* max_category of show_reduction_tips
    display         \* the set of elements written to the page

vars == <<pc, country, work_days, electricity, waste, meals, home_coords,
          work_coords, pressed, requests, response, failure, fallback_calls,
          distance, results, comparison, focus, display>>

----------------------------------------------------------------------------
(* Bounds of the model *)

\* how many of CoordSamples the geocoder may return
NumCoords == 4
\* how many of RouteSamples the routing service may answer
NumRoutes == 3

\* geocoder answers, in hundredths of a degree: Kuala Lumpur, Singapore, a
\* pair of antipodal points, the north pole, a point on the antimeridian
CoordSamples ==
    << <<314, 10169>>, <<135, 10382>>, <<-672, -14010>>, <<672, 3990>>,
       <<9000, 0>>, <<0, 18000>> >>

\* route lengths in metres answered by the routing service
RouteSamples == <<10000, 30000, 0, 55500, 1250>>

\* values of the range-constrained number inputs (lines 85-88)
WorkDaysChoices == {230, 246}
ElectricityChoices == {200, 210, 400}
WasteChoices == {3, 5}
MealsChoices == {3, 8}

----------------------------------------------------------------------------
(* Constants of the program *)

EMISSION_FACTORS ==   \* in 0.01 kgCO2 per unit
    [transportation |-> 14, electricity |-> 82, diet |-> 125, waste |-> 10]

COUNTRY_AVERAGES ==   \* in 0.1 tCO2
    "MY" :> 77 @@ "US" :> 147 @@ "IN" :> 19 @@ "CN" :> 77 @@ "GLOBAL" :> 47

\* the options of the country selectbox
SelectableCountries == {"MY", "US", "IN", "CN"}

\* Earth radius in km
R == 6371

----------------------------------------------------------------------------
(* Fixed-point arithmetic standing for float arithmetic *)

Scale == 10 ^ 4

Abs(x) == IF x < 0 THEN -x ELSE x

Min(a, b) == IF a <= b THEN a ELSE b

\* a / b rounded to the nearest integer, ties away from zero (b > 0)
Div(a, b) ==
    LET m == Abs(a)
        q == (m \div b) + (IF 2 * (m % b) >= b THEN 1 ELSE 0)
    IN IF a >= 0 THEN q ELSE -q

\* product of two fixed-point numbers
FMul(a, b) == Div(a * b, Scale)

\* math.pi and math.pi / 2 in units of 1/Scale
PiFix == 31416
HalfPiFix == PiFix \div 2

\* math.radians of an angle given in hundredths of a degree
Radians(cdeg) == Div(cdeg * PiFix, 18000)

RECURSIVE SinSeries(_, _, _, _)
\* x - x^3/3! + x^5/5! - ..., t the next term, k*(k+1) the next divisor
SinSeries(t, k, x2, acc) ==
    IF t = 0 \/ k > 13 THEN acc
    ELSE SinSeries(-Div(FMul(t, x2), k * (k + 1)), k + 2, x2, acc + t)

SinReduced(x) == SinSeries(x, 2, FMul(x, x), 0)

\* math.sin for x in [-pi, pi], reduced to [-pi/2, pi/2] first
Sin(x) == IF x > HalfPiFix THEN SinReduced(PiFix - x)
          ELSE IF x < -HalfPiFix THEN SinReduced(-PiFix - x)
          ELSE SinReduced(x)

\* math.cos for x in [-pi/2, pi/2]: cos x = sin(pi/2 - |x|)
Cos(x) == SinReduced(HalfPiFix - Abs(x))

RECURSIVE IsqrtSearch(_, _, _)
\* the largest r in lo..hi with r * r <= n
IsqrtSearch(n, lo, hi) ==
    IF lo >= hi THEN lo
    ELSE LET mid == (lo + hi + 1) \div 2
         IN IF mid * mid <= n THEN IsqrtSearch(n, mid, hi)
                              ELSE IsqrtSearch(n, lo, mid - 1)

\* math.sqrt of a fixed-point x in [0, 2], rounded to nearest
Sqrt(x) ==
    LET n == x * Scale
        r == IsqrtSearch(n, 0, 2 * Scale)
    IN IF n - r * r > r THEN r + 1 ELSE r

RECURSIVE AtanSeries(_, _, _, _)
\* z - z^3/3 + z^5/5 - ..., p the current odd power of z
AtanSeries(p, k, z2, acc) ==
    IF p = 0 \/ k > 15 THEN acc
    ELSE AtanSeries(FMul(p, z2), k + 2, z2,
                    IF (k \div 2) % 2 = 0 THEN acc + Div(p, k)
                                          ELSE acc - Div(p, k))

\* tan(t/2) from z = tan(t): z / (1 + sqrt(1 + z^2))
HalfAngle(z) == Div(z * Scale, Scale + Sqrt(Scale + FMul(z, z)))

\* atan z for z in [0, 1]: two half-angle reductions, then the series
Atan(z) ==
    LET q == HalfAngle(HalfAngle(z))
    IN 4 * AtanSeries(q, 1, FMul(q, q), 0)

\* math.atan2(y, x) for y >= 0, x >= 0, not both zero
Atan2(y, x) ==
    IF y <= x THEN Atan(Div(y * Scale, x))
              ELSE HalfPiFix - Atan(Div(x * Scale, y))

----------------------------------------------------------------------------
(* calculate_straight_distance, lines 54-66 *)

\* a coordinate pair as get_coordinates returns it; None is NoCoords
NoCoords == [found |-> FALSE, lat |-> 0, lon |-> 0]
Coord(p) == [found |-> TRUE, lat |-> p[1], lon |-> p[2]]
Coords == {Coord(CoordSamples[i]) : i \in 1..Min(NumCoords, Len(CoordSamples))}

\* the haversine term a of line 63
HaversineA(coord1, coord2) ==
    LET lat1 == Radians(coord1.lat)
        lon1 == Radians(coord1.lon)
        lat2 == Radians(coord2.lat)
        lon2 == Radians(coord2.lon)
        dlat == lat2 - lat1
        dlon == lon2 - lon1
        sdlat == Sin(Div(dlat, 2))
        sdlon == Sin(Div(dlon, 2))
    IN FMul(sdlat, sdlat)
         + FMul(FMul(Cos(lat1), Cos(lat2)), FMul(sdlon, sdlon))

\* The outcome of the call: math.sqrt raises ValueError on a negative
\* argument, which is what 1 - a is when the rounded a exceeds 1;
\* otherwise the value R * c, in hectometres.
calculate_straight_distance(coord1, coord2) ==
    LET a == HaversineA(coord1, coord2)
    IN IF a < 0 \/ Scale - a < 0
       THEN [raised |-> TRUE, value |-> 0]
       ELSE LET c == 2 * Atan2(Sqrt(a), Sqrt(Scale - a))
            IN [raised |-> FALSE, value |-> Div(R * c, 1000)]

----------------------------------------------------------------------------
(* get_coordinates, lines 42-52 *)

\* what geolocator.geocode does: raises, returns None, or returns a location
GeocoderOutcomes ==
    {[kind |-> k, loc |-> NoCoords] : k \in {"raise", "none"}}
        \cup {[kind |-> "found", loc |-> c] : c \in Coords}

\* the coordinates returned and whether st.error("Geocoding error") was shown
get_coordinates(outcome) ==
    IF outcome.kind = "raise" THEN [coords |-> NoCoords, error |-> TRUE]
    ELSE IF outcome.kind = "found" THEN [coords |-> outcome.loc, error |-> FALSE]
    ELSE [coords |-> NoCoords, error |-> FALSE]

\* Python truth value of what get_coordinates returned: None is false, a
\* tuple of two floats is true whatever the floats are
Truthy(coords) == coords.found

----------------------------------------------------------------------------
(* calculate_emissions, lines 115-128 *)

\* insertion order of the keys of the emissions dict (lines 117-127)
KEY_ORDER == <<"transport", "electricity", "diet", "waste", "total">>

\* the keys of a dict in iteration order
DictKeys(d) == SelectSeq(KEY_ORDER, LAMBDA k : k \in DOMAIN d)

RECURSIVE SumFrom(_, _, _)
SumFrom(d, keys, i) ==
    IF i > Len(keys) THEN 0 ELSE d[keys[i]] + SumFrom(d, keys, i + 1)

\* sum(d.values())
SumValues(d) == SumFrom(d, DictKeys(d), 1)

\* The four products, in micro-tonnes.  distance is in hm and the factors in
\* 0.01 kg, so distance * factor is in grams, and grams / 1000 kg-per-tonne
\* is the same number of micro-tonnes; the other three products are in
\* 0.01 kg = 10 micro-tonnes.
CategoryEmissions(inputs) ==
    "transport" :> (inputs.distance * 2 * inputs.work_days
                      * EMISSION_FACTORS.transportation)
    @@ "electricity" :> (inputs.electricity * 12
                           * EMISSION_FACTORS.electricity) * 10
    @@ "diet" :> (inputs.meals * 365 * EMISSION_FACTORS.diet) * 10
    @@ "waste" :> (inputs.waste * 52 * EMISSION_FACTORS.waste) * 10

\* faulty variant: the commute counted one way
calculate_emissions_one_way(inputs) ==
    LET emissions ==
            "transport" :> (inputs.distance * inputs.work_days
                              * EMISSION_FACTORS.transportation)
            @@ CategoryEmissions(inputs)
    IN emissions @@ "total" :> SumValues(emissions)

\* faulty variant: the total entered before the sum is taken, and so counted in it
calculate_emissions_total_counted(inputs) ==
    LET emissions == CategoryEmissions(inputs)
        first == emissions @@ "total" :> SumValues(emissions)
    IN [first EXCEPT !["total"] = SumValues(first)]

calculate_emissions(inputs) ==
    LET emissions == CategoryEmissions(inputs)
    IN emissions @@ "total" :> SumValues(emissions)

\* f"{x:.2f}" of a value in micro-tonnes: hundredths of a tonne
Format2(x) == Div(x, 10 ^ 4)

----------------------------------------------------------------------------
(* show_comparison, lines 150-172 *)

\* COUNTRY_AVERAGES.get(country, 4.7), in 0.1 t
CountryAvg(c) ==
    IF c \in DOMAIN COUNTRY_AVERAGES THEN COUNTRY_AVERAGES[c] ELSE 47

\* micro-tonnes in 0.1 t
MicroPerTenth == 10 ^ 5

\* 200 percent in thousandths of a percent
ProgressCap == 200 * 10 ^ 3

NoComparison ==
    [shown |-> FALSE, country_avg |-> 0, difference |-> 0,
     percentage_diff |-> 0, progress |-> 0, fraction |-> 0,
     color |-> "", polarity |-> ""]

\* faulty variant: the progress value not capped at 200
show_comparison_uncapped(total_co2, c) ==
    LET avg == CountryAvg(c)
        difference == total_co2 - avg * MicroPerTenth
        progress == Div(total_co2, avg)
    IN [shown |-> TRUE,
        country_avg |-> avg * MicroPerTenth,
        difference |-> difference,
        percentage_diff |-> Div(Abs(difference), avg),
        progress |-> progress,
        fraction |-> progress * 5,
        color |-> IF difference > 0 THEN "#ff5252" ELSE "#4caf50",
        polarity |-> IF difference > 0 THEN "above" ELSE "below"]

\* faulty variant: the difference taken the other way round
show_comparison_reversed(total_co2, c) ==
    LET avg == CountryAvg(c)
        difference == avg * MicroPerTenth - total_co2
        progress == Min(Div(total_co2, avg), ProgressCap)
    IN [shown |-> TRUE,
        country_avg |-> avg * MicroPerTenth,
        difference |-> difference,
        percentage_diff |-> Div(Abs(difference), avg),
        progress |-> progress,
        fraction |-> progress * 5,
        color |-> IF difference > 0 THEN "#ff5252" ELSE "#4caf50",
        polarity |-> IF difference > 0 THEN "above" ELSE "below"]

\* total_co2 in micro-tonnes.  x / country_avg * 100 in thousandths of a
\* percent is x / avg with avg in 0.1 t; progress / 200 is held in millionths.
show_comparison(total_co2, c) ==
    LET avg == CountryAvg(c)
        difference == total_co2 - avg * MicroPerTenth
        progress == Min(Div(total_co2, avg), ProgressCap)
    IN [shown |-> TRUE,
        country_avg |-> avg * MicroPerTenth,
        difference |-> difference,
        percentage_diff |-> Div(Abs(difference), avg),
        progress |-> progress,
        fraction |-> progress * 5,
        color |-> IF difference > 0 THEN "#ff5252" ELSE "#4caf50",
        polarity |-> IF difference > 0 THEN "above" ELSE "below"]

----------------------------------------------------------------------------
(* show_reduction_tips, lines 174-204 *)

\* key=lambda k: emissions[k] if k != "total" else 0
TipKey(emissions, k) == IF k # "total" THEN emissions[k] ELSE 0

RECURSIVE PyMax(_, _, _, _)
\* Python's max over the keys: the first key whose key value is the largest
PyMax(emissions, keys, i, best) ==
    IF i > Len(keys) THEN best
    ELSE PyMax(emissions, keys, i + 1,
               IF TipKey(emissions, keys[i]) > TipKey(emissions, best)
               THEN keys[i] ELSE best)

RECURSIVE LastMax(_, _, _, _)
LastMax(emissions, keys, i, best) ==
    IF i > Len(keys) THEN best
    ELSE LastMax(emissions, keys, i + 1,
                 IF TipKey(emissions, keys[i]) >= TipKey(emissions, best)
                 THEN keys[i] ELSE best)

\* faulty variant: among equal maxima the last key wins
show_reduction_tips_last(emissions) ==
    LET keys == DictKeys(emissions)
    IN LastMax(emissions, keys, 2, keys[1])

\* max_category
show_reduction_tips(emissions) ==
    LET keys == DictKeys(emissions)
    IN PyMax(emissions, keys, 2, keys[1])

----------------------------------------------------------------------------
(* The routing service, seen from get_route_distance (lines 68-77) *)

\* HTTP statuses the service may answer with
Statuses == {200, 400}

\* bodies on which lines 73-74 raise, and the exception each raises
BodyFailures ==
    "not_json" :> "JSONDecodeError"    \* response.json() raises
    @@ "no_routes" :> "KeyError"       \* data['routes']
    @@ "empty_routes" :> "IndexError"  \* data['routes'][0]
    @@ "no_distance" :> "KeyError"     \* data['routes'][0]['distance']
    @@ "non_numeric" :> "TypeError"    \* ... / 1000

Bodies ==
    {[kind |-> k, metres |-> 0] : k \in DOMAIN BodyFailures}
        \cup {[kind |-> "route", metres |-> RouteSamples[i]] :
                 i \in 1..Min(NumRoutes, Len(RouteSamples))}

NoResponse == [raised |-> FALSE, status |-> 0, body |-> [kind |-> "", metres |-> 0]]

\* what requests.get does: raises (no connection, timeout), or returns
Responses ==
    {[raised |-> TRUE, status |-> 0, body |-> [kind |-> "", metres |-> 0]]}
        \cup {[raised |-> FALSE, status |-> st, body |-> b] :
                 st \in Statuses, b \in Bodies}

\* the empty dict, before calculate_emissions has run
NoResults == [k \in {} |-> 0]

----------------------------------------------------------------------------
(* The script run *)

\* The widgets hold the user's choices when the script starts (lines 80-88).
Init ==
    /\ pc = "geocode_home"
    /\ country \in SelectableCountries
    /\ work_days \in WorkDaysChoices
    /\ electricity \in ElectricityChoices
    /\ waste \in WasteChoices
    /\ meals \in MealsChoices
    /\ home_coords = NoCoords
    /\ work_coords = NoCoords
    /\ pressed = FALSE
    /\ requests = 0
    /\ response = NoResponse
    /\ failure = "none"
    /\ fallback_calls = 0
    /\ distance = 0
    /\ results = NoResults
    /\ comparison = NoComparison
    /\ focus = ""
    /\ display = {}

\* line 91
GeocodeHome ==
    /\ pc = "geocode_home"
    /\ \E o \in GeocoderOutcomes :
          LET r == get_coordinates(o)
          IN /\ home_coords' = r.coords
             /\ display' = IF r.error THEN display \cup {"geocoding_error"}
                                      ELSE display
    /\ pc' = "geocode_work"
    /\ UNCHANGED <<country, work_days, electricity, waste, meals, work_coords,
                   pressed, requests, response, failure, fallback_calls,
                   distance, results, comparison, focus>>

\* line 92
GeocodeWork ==
    /\ pc = "geocode_work"
    /\ \E o \in GeocoderOutcomes :
          LET r == get_coordinates(o)
          IN /\ work_coords' = r.coords
             /\ display' = IF r.error THEN display \cup {"geocoding_error"}
                                      ELSE display
    /\ pc' = "button"
    /\ UNCHANGED <<country, work_days, electricity, waste, meals, home_coords,
                   pressed, requests, response, failure, fallback_calls,
                   distance, results, comparison, focus>>

\* line 207, the button not pressed in this run: nothing more is computed
SkipButton ==
    /\ pc = "button"
    /\ pressed' = FALSE
    /\ pc' = "done"
    /\ UNCHANGED <<country, work_days, electricity, waste, meals, home_coords,
                   work_coords, requests, response, failure, fallback_calls,
                   distance, results, comparison, focus, display>>

\* faulty variant: the addresses rejected only when both are missing
PressButtonBothMissing ==
    /\ pc = "button"
    /\ pressed' = TRUE
    /\ IF ~Truthy(home_coords) /\ ~Truthy(work_coords)
       THEN /\ display' = display \cup {"invalid_address"}
            /\ pc' = "done"
       ELSE /\ display' = display
            /\ pc' = "request"
    /\ UNCHANGED <<country, work_days, electricity, waste, meals, home_coords,
                   work_coords, requests, response, failure, fallback_calls,
                   distance, results, comparison, focus>>

\* lines 207-211 and 227: the button pressed
PressButton ==
    /\ pc = "button"
    /\ pressed' = TRUE
    /\ IF ~Truthy(home_coords) \/ ~Truthy(work_coords)
       THEN /\ display' = display \cup {"invalid_address"}
            /\ pc' = "done"
       ELSE /\ display' = display
            /\ pc' = "request"
    /\ UNCHANGED <<country, work_days, electricity, waste, meals, home_coords,
                   work_coords, requests, response, failure, fallback_calls,
                   distance, results, comparison, focus>>

\* lines 71-72: requests.get(url)
RequestsGet ==
    /\ pc = "request"
    /\ requests' = requests + 1
    /\ \E r \in Responses :
          /\ response' = r
          /\ IF r.raised
             THEN failure' = "ConnectionError" /\ pc' = "except"
             ELSE failure' = failure /\ pc' = "json"
    /\ UNCHANGED <<country, work_days, electricity, waste, meals, home_coords,
                   work_coords, pressed, fallback_calls, distance, results,
                   comparison, focus, display>>

\* line 73: response.json(); the status of the response is not looked at
ResponseJson ==
    /\ pc = "json"
    /\ IF response.body.kind = "not_json"
       THEN failure' = BodyFailures["not_json"] /\ pc' = "except"
       ELSE failure' = failure /\ pc' = "extract"
    /\ UNCHANGED <<country, work_days, electricity, waste, meals, home_coords,
                   work_coords, pressed, requests, response, fallback_calls,
                   distance, results, comparison, focus, display>>

\* line 74: return data['routes'][0]['distance'] / 1000
ExtractDistance ==
    /\ pc = "extract"
    /\ IF response.body.kind \in DOMAIN BodyFailures
       THEN /\ failure' = BodyFailures[response.body.kind]
            /\ pc' = "except"
            /\ distance' = distance
       ELSE /\ failure' = failure
            /\ pc' = "calculate"
            /\ distance' = Div(response.body.metres, 100)
    /\ UNCHANGED <<country, work_days, electricity, waste, meals, home_coords,
                   work_coords, pressed, requests, response, fallback_calls,
                   results, comparison, focus, display>>

\* faulty variant: the handler asks the routing service again before falling back
HandleExceptionRetry ==
    /\ pc = "except"
    /\ display' = display \cup {"routing_warning"}
    /\ IF requests < 2
       THEN /\ pc' = "request"
            /\ UNCHANGED <<fallback_calls, distance>>
       ELSE /\ fallback_calls' = fallback_calls + 1
            /\ LET d == calculate_straight_distance(home_coords, work_coords)
               IN IF d.raised
                  THEN pc' = "crashed" /\ distance' = distance
                  ELSE pc' = "calculate" /\ distance' = d.value
    /\ UNCHANGED <<country, work_days, electricity, waste, meals, home_coords,
                   work_coords, pressed, requests, response, failure, results,
                   comparison, focus>>

\* lines 75-77: the warning, then calculate_straight_distance(start, end);
\* an exception raised by it leaves get_route_distance and ends the run
HandleException ==
    /\ pc = "except"
    /\ display' = display \cup {"routing_warning"}
    /\ fallback_calls' = fallback_calls + 1
    /\ LET d == calculate_straight_distance(home_coords, work_coords)
       IN IF d.raised
          THEN pc' = "crashed" /\ distance' = distance
          ELSE pc' = "calculate" /\ distance' = d.value
    /\ UNCHANGED <<country, work_days, electricity, waste, meals, home_coords,
                   work_coords, pressed, requests, response, failure, results,
                   comparison, focus>>

\* lines 228-235
CalculateEmissions ==
    /\ pc = "calculate"
    /\ results' = calculate_emissions(
                      [distance |-> distance, work_days |-> work_days,
                       electricity |-> electricity, waste |-> waste,
                       meals |-> meals])
    /\ pc' = "show"
    /\ UNCHANGED <<country, work_days, electricity, waste, meals, home_coords,
                   work_coords, pressed, requests, response, failure,
                   fallback_calls, distance, comparison, focus, display>>

\* lines 238-256
ShowResults ==
    /\ pc = "show"
    /\ display' = display \cup {"breakdown", "comparison", "tips"}
    /\ comparison' = show_comparison(results["total"], country)
    /\ focus' = show_reduction_tips(results)
    /\ pc' = "done"
    /\ UNCHANGED <<country, work_days, electricity, waste, meals, home_coords,
                   work_coords, pressed, requests, response, failure,
                   fallback_calls, distance, results>>

Next ==
    \/ GeocodeHome
    \/ GeocodeWork
    \/ SkipButton
    \/ PressButton
    \/ RequestsGet
    \/ ResponseJson
    \/ ExtractDistance
    \/ HandleException
    \/ CalculateEmissions
    \/ ShowResults

Spec == Init /\ [][Next]_vars

----------------------------------------------------------------------------
(* Properties *)

\* get_route_distance has returned a value to line 227
RouteReturned == requests > 0 /\ pc \in {"calculate", "show", "done"}

\* the four emission categories, in the order fixed for ties
Categories == <<"transport", "electricity", "diet", "waste">>

CategorySet == {Categories[i] : i \in 1..Len(Categories)}

\* the inputs of the known fixture: 10 km, 230 days, 200 kWh, 5 kg, 3 meals
IsFixture ==
    /\ distance = 100
    /\ work_days = 230
    /\ electricity = 200
    /\ waste = 5
    /\ meals = 3

\* C1: whenever the try block of get_route_distance raised (network error,
\* body that is not JSON, missing 'routes', empty routes, missing or
\* non-numeric 'distance') and the handler has run, get_route_distance
\* raised nothing and returned exactly what calculate_straight_distance
\* returns for the same pair.
C1_FallbackNeverRaises ==
    (failure # "none" /\ fallback_calls > 0) =>
        LET d == calculate_straight_distance(home_coords, work_coords)
        IN /\ pc # "crashed"
           /\ ~d.raised
           /\ distance = d.value

\* C2: whenever the routing service answered with a status other than 200
\* and get_route_distance has returned, it took the fallback path: the
\* distance is the haversine distance, never a value read from the body.
C2_Non200TakesFallback ==
    (RouteReturned /\ ~response.raised /\ response.status # 200) =>
        /\ fallback_calls = 1
        /\ distance
             = calculate_straight_distance(home_coords, work_coords).value

\* C3: get_route_distance issues exactly one routing request, never a second
\* one after a failure, and computes the haversine fallback only after that
\* one request has failed: not before it, and not when it succeeded.
C3_ExactlyOneRequest ==
    /\ requests \in {0, 1}
    /\ fallback_calls \in {0, 1}
    /\ pc \in {"json", "extract", "except", "crashed"} => requests = 1
    /\ (pc \in {"calculate", "show"} \/ results # NoResults) => requests = 1
    /\ fallback_calls = 1 => (requests = 1 /\ failure # "none")
    /\ pc = "except" => (fallback_calls = 0 /\ failure # "none")
    /\ (RouteReturned /\ failure = "none") => fallback_calls = 0
    /\ (RouteReturned /\ failure # "none") => fallback_calls = 1

\* a run in which the request failed and the fallback was taken
C3_Witness ==
    /\ pc = "done"
    /\ failure = "ConnectionError"
    /\ requests = 1
    /\ fallback_calls = 1

\* C4: if geocoding of the home or of the work address gave no coordinates,
\* pressing the button reports the invalid-address error and calculates
\* nothing: no routing request, no fallback, no calculate_emissions, no
\* breakdown, comparison or tips; and get_route_distance never runs with a
\* null coordinate.
C4_InvalidAddressBlocks ==
    /\ (pc \in {"request", "json", "extract", "except", "calculate", "show",
                "crashed"} \/ requests > 0 \/ fallback_calls > 0)
          => (Truthy(home_coords) /\ Truthy(work_coords))
    /\ (pressed /\ (~Truthy(home_coords) \/ ~Truthy(work_coords))) =>
          /\ pc = "done"
          /\ "invalid_address" \in display
          /\ requests = 0
          /\ fallback_calls = 0
          /\ results = NoResults
          /\ ~comparison.shown
          /\ focus = ""
          /\ display \cap {"routing_warning", "breakdown", "comparison",
                           "tips"} = {}

\* the button pressed after the geocoder raised for one address and found
\* the other
C4_Witness ==
    /\ pressed
    /\ "geocoding_error" \in display
    /\ "invalid_address" \in display
    /\ ~Truthy(home_coords)
    /\ Truthy(work_coords)

\* C5: the report of calculate_emissions has exactly the keys transport,
\* electricity, diet, waste and total, and total is the sum of the other
\* four (total itself not counted).
C5_TotalIsSumOfFour ==
    results # NoResults =>
        /\ DOMAIN results = CategorySet \cup {"total"}
        /\ results["total"] = results["transport"] + results["electricity"]
                                + results["diet"] + results["waste"]

\* a report computed from a distance greater than zero
C5_Witness ==
    /\ results # NoResults
    /\ distance > 0
    /\ results["transport"] > 0
    /\ results["total"] > results["transport"]

\* C6: calculate_emissions agrees with the reference formulas (in tonnes:
\* distance*2*work_days*0.14/1000, electricity*12*0.82/1000,
\* meals*365*1.25/1000, waste*52*0.1/1000; here in micro-tonnes, distance in
\* hm); the fixture gives 0.64, 1.97, 1.37, 0.03 and 4.01 to two decimals;
\* doubling the electricity input doubles the electricity category and
\* leaves the other three as they are.
C6_ReferenceFormulas ==
    results # NoResults =>
        LET inputs == [distance |-> distance, work_days |-> work_days,
                       electricity |-> electricity, waste |-> waste,
                       meals |-> meals]
            doubled == calculate_emissions(
                           [inputs EXCEPT !.electricity = 2 * electricity])
        IN /\ results["transport"] = distance * work_days * 28
           /\ results["electricity"] = electricity * 9840
           /\ results["diet"] = meals * 456250
           /\ results["waste"] = waste * 5200
           /\ IsFixture =>
                 /\ Format2(results["transport"]) = 64
                 /\ Format2(results["electricity"]) = 197
                 /\ Format2(results["diet"]) = 137
                 /\ Format2(results["waste"]) = 3
                 /\ Format2(results["total"]) = 401
           /\ doubled["electricity"] = 2 * results["electricity"]
           /\ \A k \in CategorySet \ {"electricity"} : doubled[k] = results[k]

\* the fixture, calculated
C6_Witness ==
    /\ IsFixture
    /\ results # NoResults
    /\ Format2(results["total"]) = 401

\* C7: the focus category of show_reduction_tips is one of the four
\* categories, never 'total'; its value is the maximum of the four; among
\* equal maxima it is the first in the order transport, electricity, diet,
\* waste; for the fixture it is electricity.
C7_FocusIsFirstMaximum ==
    focus # "" =>
        /\ focus \in CategorySet
        /\ \A k \in CategorySet : results[k] <= results[focus]
        /\ \A i, j \in 1..Len(Categories) :
              (Categories[j] = focus /\ i < j)
                  => results[Categories[i]] < results[focus]
        /\ IsFixture => focus = "electricity"

\* transport and electricity share the maximum, and transport is chosen
C7_Witness ==
    /\ focus = "transport"
    /\ results["transport"] = results["electricity"]
    /\ results["diet"] < results["transport"]

\* the magnitude of (total - reference) / reference * 100, in thousandths of
\* a percent, to the nearest unit
PercentageIsMagnitude ==
    LET avg == CountryAvg(country)
        gap == Abs(results["total"] - avg * MicroPerTenth)
    IN /\ comparison.percentage_diff >= 0
       /\ 2 * Abs(comparison.percentage_diff * avg - gap) <= avg

\* C8, as claimed: the message says 'above' if and only if the total is
\* higher than the national average, 'below' if and only if the total is
\* lower than it, and the percentage has the magnitude of
\* (total - reference) / reference * 100.
C8_PolarityFollowsSign ==
    comparison.shown =>
        LET reference == CountryAvg(country) * MicroPerTenth
        IN /\ comparison.polarity = "above" <=> results["total"] > reference
           /\ comparison.polarity = "below" <=> results["total"] < reference
           /\ PercentageIsMagnitude

\* C8, amended: the message says 'above' if and only if the total is higher
\* than the national average and 'below' if and only if the total is lower
\* than or equal to it; the percentage has the magnitude of
\* (total - reference) / reference * 100.
C8_AboveIffHigher ==
    comparison.shown =>
        LET reference == CountryAvg(country) * MicroPerTenth
        IN /\ comparison.polarity = "above" <=> results["total"] > reference
           /\ comparison.polarity = "below" <=> results["total"] <= reference
           /\ PercentageIsMagnitude

\* a total equal to the national average is reported as 0.0% below
C8_Witness ==
    /\ comparison.shown
    /\ results["total"] = CountryAvg(country) * MicroPerTenth
    /\ comparison.polarity = "below"
    /\ comparison.percentage_diff = 0

\* C9: for every total calculate_emissions produces and every country code,
\* selectable or missing from COUNTRY_AVERAGES, the average divided by is
\* not zero, progress lies in [0, 200] and progress / 200 in [0, 1].
C9_ProgressBounded ==
    /\ results # NoResults =>
          \A c \in SelectableCountries \cup {"GLOBAL", "ZZ"} :
             LET shown == show_comparison(results["total"], c)
             IN /\ CountryAvg(c) > 0
                /\ shown.country_avg > 0
                /\ shown.progress >= 0
                /\ shown.progress <= ProgressCap
                /\ shown.fraction >= 0
                /\ shown.fraction <= 10 ^ 6
    /\ comparison.shown =>
          /\ comparison.progress \in 0..ProgressCap
          /\ comparison.fraction \in 0..(10 ^ 6)

\* a total of more than twice the national average: the bar is full
C9_Witness ==
    /\ comparison.shown
    /\ results["total"] > 2 * comparison.country_avg
    /\ comparison.progress = ProgressCap
    /\ comparison.fraction = 10 ^ 6

\* C10: calculate_straight_distance returns 0.0 for two identical
\* coordinates, and for any two coordinates A and B it returns the same
\* value for (A, B) as for (B, A).
C10_ZeroAndSymmetric ==
    fallback_calls > 0 =>
        LET ab == calculate_straight_distance(home_coords, work_coords)
            ba == calculate_straight_distance(work_coords, home_coords)
        IN /\ ~ab.raised
           /\ ~ba.raised
           /\ ab.value = ba.value
           /\ home_coords = work_coords => ab.value = 0

\* What does hold of calculate_straight_distance: the outcome for (A, B) is
\* the outcome for (B, A), a value or the ValueError alike, and identical
\* coordinates give 0.
HaversineOutcomeSymmetric ==
    fallback_calls > 0 =>
        /\ calculate_straight_distance(home_coords, work_coords)
             = calculate_straight_distance(work_coords, home_coords)
        /\ home_coords = work_coords =>
              calculate_straight_distance(home_coords, work_coords)
                = [raised |-> FALSE, value |-> 0]

====
